---- MODULE Spec2Model ----
(***************************************************************************)
(* PrintTable (src/PrintTable.h): a table of strings that is filled with   *)
(* SetTitle / AddColumn / AddRow / AddRows, rendered by Print and emptied  *)
(* by Reset.  A string is a sequence of one-character strings, a line of   *)
(* output is a string, and stdout of the last call is a sequence of lines. *)
(***************************************************************************)
EXTENDS Integers, Sequences, FiniteSets

\* Bounds of the model.
MaxStrLen == 1      \* longest column name / cell handed to the table
MaxTitleLen == 2    \* longest title handed to SetTitle
MaxCols == 2        \* AddColumn is not called on a table of MaxCols columns
MaxRows == 2        \* rows are not added to a table beyond MaxRows rows
MaxBatch == 2       \* longest list handed to AddRows
MaxCalls == 8       \* calls the client makes on the table (main makes 8)

VARIABLES
    title,              \* std::string title
    columnNames,        \* std::vector<std::string> columnNames
    rows,               \* std::vector<std::vector<std::string>> rows
    startedAddingRows,  \* bool startedAddingRows
    alteredState,       \* bool alteredState
    maxColumnWidths,    \* std::vector<int> maxColumnWidths
    fullDividerStr,     \* std::string fullDividerStr
    titleStr,           \* std::string titleStr
    columnStr,          \* std::string columnStr
    rowStrs,            \* std::vector<std::string> rowStrs
    out,                \* the lines the last call wrote to stdout
    fault,              \* "none", or how the process ended inside Print
    calls,              \* history: calls made on the table so far
    renders,            \* history: table prints completed in a row, up to 2
    rowOp               \* history: "none", "rejected" or "accepted": what
                        \* AddRow/AddRows did since construction or Reset

content == <<title, columnNames, rows, startedAddingRows>>
format == <<maxColumnWidths, fullDividerStr, titleStr, columnStr, rowStrs>>
vars == <<title, columnNames, rows, startedAddingRows, alteredState,
          maxColumnWidths, fullDividerStr, titleStr, columnStr, rowStrs,
          out, fault, calls, renders, rowOp>>

----------------------------------------------------------------------------
\* Strings and the inputs of the calls.

Rep(ch, n) == [i \in 1..n |-> ch]

Strs(n) == {Rep("a", k) : k \in 0..n}

SeqsUpTo(S, n) == UNION {[1..k -> S] : k \in 0..n}

Names == Strs(MaxStrLen)
Titles == Strs(MaxTitleLen)
RowInputs == SeqsUpTo(Names, MaxCols)
RowListInputs == SeqsUpTo(RowInputs, MaxBatch)

\* What an out-of-range read of rows[r][c].length() or maxColumnWidths[e]
\* may yield when it does not end the process.
GarbageInts == {-2, 0, 3}

\* The diagnostics of printf, without their arguments.
MsgColumnsLocked == <<"already has rows added: additional columns cannot be added">>
MsgRowArity == <<"Trying to add row with a number of elements the table does not require">>
MsgMissingData == <<"Missing some necessary data to print table">>

\* int / 2 of C++: the quotient is truncated towards zero.
CDiv2(n) == IF n >= 0 THEN n \div 2 ELSE -((-n) \div 2)

RECURSIVE SumWidths(_, _)
SumWidths(w, k) == IF k = 0 THEN 0 ELSE SumWidths(w, k - 1) + (w[k] + 3)

----------------------------------------------------------------------------
\* Print, the layout (alteredState branch).

\* the k-th iteration of the nested r/c loops, in the order they run
RowOf(k) == ((k - 1) \div Len(columnNames)) + 1
ColOf(k) == ((k - 1) % Len(columnNames)) + 1
NumCells == Len(rows) * Len(columnNames)

CellOutOfRange(k) == ColOf(k) > Len(rows[RowOf(k)])

CellLength(k, g) ==
    IF CellOutOfRange(k) THEN g ELSE Len(rows[RowOf(k)][ColOf(k)])

\* 0 when the width loops read no missing cell, else the first iteration that does
FirstCellOutOfRange ==
    LET bad == {k \in 1..NumCells : CellOutOfRange(k)}
    IN  IF bad = {} THEN 0 ELSE CHOOSE k \in bad : \A j \in bad : k <= j

\* maxColumnWidths after the first k iterations of the width loops
RECURSIVE WidthsAfter(_, _)
WidthsAfter(k, g) ==
    IF k = 0
    THEN [i \in 1..Len(columnNames) |-> Len(columnNames[i])]
    ELSE LET w == WidthsAfter(k - 1, g)
             c == ColOf(k)
         IN  IF CellLength(k, g) > w[c]
             THEN [w EXCEPT ![c] = CellLength(k, g)]
             ELSE w

TableWidthNoLastBar(w) == SumWidths(w, Len(w))
TableWidth(w) == SumWidths(w, Len(w)) + 1

NumPreSpace(lengthDiff) == CDiv2(lengthDiff)
NumPostSpaceRoundedDown(lengthDiff) == CDiv2(lengthDiff)
NumPostSpace(lengthDiff) == CDiv2(lengthDiff + 1)

\* std::string(n, ' ') throws std::length_error for a negative int n
PadThrows(lengthDiff) == NumPreSpace(lengthDiff) < 0 \/ NumPostSpace(lengthDiff) < 0

Padded(text, lengthDiff) ==
    Rep(" ", NumPreSpace(lengthDiff)) \o text \o Rep(" ", NumPostSpace(lengthDiff))

TitleDiff(w) == (TableWidth(w) - 4) - Len(title)

MakeTitleStr(w) == <<"|", " ">> \o Padded(title, TitleDiff(w)) \o <<" ", "|">>

ColumnSegment(w, i) ==
    LET lengthDiff == w[i] - Len(columnNames[i])
    IN  IF lengthDiff > 0
        THEN <<"|", " ">> \o Padded(columnNames[i], lengthDiff) \o <<" ">>
        ELSE <<"|", " ">> \o columnNames[i] \o <<" ">>

RECURSIVE ColumnSegments(_, _)
ColumnSegments(w, n) ==
    IF n = 0 THEN <<>> ELSE ColumnSegments(w, n - 1) \o ColumnSegment(w, n)

MakeColumnStr(w) == ColumnSegments(w, Len(columnNames)) \o <<"|">>

\* element e of row r: maxColumnWidths[e] is read out of range when the row
\* has more elements than the table has columns
WidthOutOfRange(w, e) == e > Len(w)
ElementDiff(w, r, e, g) ==
    (IF WidthOutOfRange(w, e) THEN g ELSE w[e]) - Len(rows[r][e])

ElementFault(w, r, e, g, crash) ==
    IF WidthOutOfRange(w, e) /\ crash THEN "out_of_range"
    ELSE IF PadThrows(ElementDiff(w, r, e, g)) THEN "length_error"
    ELSE "none"

\* 0 when row r is built to its end, else the first element that is not
FirstBadElement(w, r, g, crash) ==
    LET bad == {e \in 1..Len(rows[r]) : ElementFault(w, r, e, g, crash) # "none"}
    IN  IF bad = {} THEN 0 ELSE CHOOSE e \in bad : \A j \in bad : e <= j

\* rowStrs[r] after its first n elements
RECURSIVE RowSegments(_, _, _, _)
RowSegments(w, r, n, g) ==
    IF n = 0 THEN <<>>
    ELSE RowSegments(w, r, n - 1, g)
         \o <<"|", " ">> \o Padded(rows[r][n], ElementDiff(w, r, n, g)) \o <<" ">>

MakeRowStr(w, r, g) == RowSegments(w, r, Len(rows[r]), g) \o <<"|">>

FirstBadRow(w, g, crash) ==
    LET bad == {r \in 1..Len(rows) : FirstBadElement(w, r, g, crash) # 0}
    IN  IF bad = {} THEN 0 ELSE CHOOSE r \in bad : \A j \in bad : r <= j

\* rowStrs when building stops in row b at element FirstBadElement
PartialRowStrs(w, b, g, crash) ==
    [r \in 1..Len(rows) |->
        IF r < b THEN MakeRowStr(w, r, g)
        ELSE IF r = b THEN RowSegments(w, r, FirstBadElement(w, r, g, crash) - 1, g)
        ELSE <<>>]

Emitted(divider, tStr, cStr, rStrs) ==
    <<divider, tStr, divider, cStr, divider>> \o rStrs \o <<divider>>

----------------------------------------------------------------------------
Init ==
    /\ title = <<>>
    /\ columnNames = <<>>
    /\ rows = <<>>
    /\ startedAddingRows = FALSE
    /\ alteredState = FALSE
    /\ maxColumnWidths = <<>>
    /\ fullDividerStr = <<>>
    /\ titleStr = <<>>
    /\ columnStr = <<>>
    /\ rowStrs = <<>>
    /\ out = <<>>
    /\ fault = "none"
    /\ calls = 0
    /\ renders = 0
    /\ rowOp = "none"

\* A call is made by a running process that has calls left to make.
Call ==
    /\ fault = "none"
    /\ calls < MaxCalls
    /\ calls' = calls + 1

SetTitle(t) ==
    /\ Call
    /\ title' = t
    /\ alteredState' = TRUE
    /\ out' = <<>>
    /\ renders' = 0
    /\ UNCHANGED <<columnNames, rows, startedAddingRows, format, fault, rowOp>>

AddColumnIgnoringRows(columnName) ==
    /\ Call
    /\ Len(columnNames) < MaxCols
    /\ columnNames' = Append(columnNames, columnName)
    /\ alteredState' = TRUE
    /\ out' = <<>>
    /\ renders' = 0
    /\ UNCHANGED <<title, rows, startedAddingRows, format, fault, rowOp>>

AddColumn(columnName) ==
    /\ Call
    /\ IF startedAddingRows
       THEN /\ out' = <<MsgColumnsLocked>>
            /\ UNCHANGED <<columnNames, alteredState>>
       ELSE /\ Len(columnNames) < MaxCols
            /\ columnNames' = Append(columnNames, columnName)
            /\ alteredState' = TRUE
            /\ out' = <<>>
    /\ renders' = 0
    /\ UNCHANGED <<title, rows, startedAddingRows, format, fault, rowOp>>

AddRow(row) ==
    /\ Call
    /\ IF Len(row) # Len(columnNames)
       THEN /\ out' = <<MsgRowArity>>
            /\ rowOp' = IF rowOp = "none" THEN "rejected" ELSE rowOp
            /\ UNCHANGED <<rows, startedAddingRows, alteredState>>
       ELSE /\ Len(rows) < MaxRows
            /\ rows' = Append(rows, row)
            /\ startedAddingRows' = TRUE
            /\ alteredState' = TRUE
            /\ out' = <<>>
            /\ rowOp' = "accepted"
    /\ renders' = 0
    /\ UNCHANGED <<title, columnNames, format, fault>>

RECURSIVE ArityMessages(_, _)
ArityMessages(list, n) ==
    IF n = 0 THEN <<>>
    ELSE ArityMessages(list, n - 1)
         \o (IF Len(list[n]) # Len(columnNames) THEN <<MsgRowArity>> ELSE <<>>)

AddRowsLockingWhenNonEmpty(list) ==
    /\ Call
    /\ Len(rows) + Len(list) <= MaxRows
    /\ out' = ArityMessages(list, Len(list))
    /\ rows' = rows \o list
    /\ startedAddingRows' = (startedAddingRows \/ list # <<>>)
    /\ alteredState' = TRUE
    /\ renders' = 0
    /\ rowOp' = "accepted"
    /\ UNCHANGED <<title, columnNames, format, fault>>

AddRows(list) ==
    /\ Call
    /\ Len(rows) + Len(list) <= MaxRows
    /\ out' = ArityMessages(list, Len(list))
    /\ rows' = rows \o list
    /\ startedAddingRows' = TRUE
    /\ alteredState' = TRUE
    /\ renders' = 0
    /\ rowOp' = "accepted"
    /\ UNCHANGED <<title, columnNames, format, fault>>

\* Print, the precondition check: the diagnostic and an early return.
PrintMissingDataClearingAltered ==
    /\ out' = <<MsgMissingData>>
    /\ alteredState' = FALSE
    /\ renders' = 0
    /\ UNCHANGED <<format, fault>>

PrintMissingData ==
    /\ out' = <<MsgMissingData>>
    /\ renders' = 0
    /\ UNCHANGED <<alteredState, format, fault>>

\* Print, its end: the table is written and alteredState cleared.
PrintLinesKeepingAltered(divider, tStr, cStr, rStrs) ==
    /\ out' = Emitted(divider, tStr, cStr, rStrs)
    /\ renders' = IF renders < 2 THEN renders + 1 ELSE 2
    /\ UNCHANGED <<alteredState, fault>>

PrintLines(divider, tStr, cStr, rStrs) ==
    /\ out' = Emitted(divider, tStr, cStr, rStrs)
    /\ alteredState' = FALSE
    /\ renders' = IF renders < 2 THEN renders + 1 ELSE 2
    /\ UNCHANGED fault

\* Print leaves by an exception or a crash: nothing is written.
PrintFails(how) ==
    /\ fault' = how
    /\ out' = <<>>
    /\ renders' = 0
    /\ UNCHANGED alteredState

\* Print, the alteredState branch and what follows it.
\* g: what an out-of-range read yields; crash: whether it ends the process
BuildFormat(g, crash) ==
    IF FirstCellOutOfRange # 0 /\ crash
    THEN /\ maxColumnWidths' = WidthsAfter(FirstCellOutOfRange - 1, g)
         /\ PrintFails("out_of_range")
         /\ UNCHANGED <<fullDividerStr, titleStr, columnStr, rowStrs>>
    ELSE LET w == WidthsAfter(NumCells, g)
             divider == Rep("-", TableWidth(w))
             b == FirstBadRow(w, g, crash)
         IN  /\ maxColumnWidths' = w
             /\ fullDividerStr' = divider
             /\ IF PadThrows(TitleDiff(w))
                THEN /\ titleStr' = <<>>
                     /\ PrintFails("length_error")
                     /\ UNCHANGED <<columnStr, rowStrs>>
                ELSE /\ titleStr' = MakeTitleStr(w)
                     /\ columnStr' = MakeColumnStr(w)
                     /\ IF b # 0
                        THEN /\ rowStrs' = PartialRowStrs(w, b, g, crash)
                             /\ PrintFails(ElementFault(w, b,
                                    FirstBadElement(w, b, g, crash), g, crash))
                        ELSE /\ rowStrs' = [r \in 1..Len(rows) |-> MakeRowStr(w, r, g)]
                             /\ PrintLines(divider, MakeTitleStr(w), MakeColumnStr(w),
                                    [r \in 1..Len(rows) |-> MakeRowStr(w, r, g)])

PrintCall(g, crash) ==
    /\ Call
    /\ IF title = <<>> \/ columnNames = <<>> \/ rows = <<>>
       THEN PrintMissingData
       ELSE IF alteredState
       THEN BuildFormat(g, crash)
       ELSE /\ PrintLines(fullDividerStr, titleStr, columnStr, rowStrs)
            /\ UNCHANGED format
    /\ UNCHANGED <<content, rowOp>>

ResetKeepingAltered ==
    /\ Call
    /\ title' = <<>>
    /\ columnNames' = <<>>
    /\ rows' = <<>>
    /\ maxColumnWidths' = <<>>
    /\ startedAddingRows' = FALSE
    /\ out' = <<>>
    /\ renders' = 0
    /\ rowOp' = "none"
    /\ UNCHANGED <<alteredState, fullDividerStr, titleStr, columnStr, rowStrs, fault>>

Reset ==
    /\ Call
    /\ title' = <<>>
    /\ columnNames' = <<>>
    /\ rows' = <<>>
    /\ maxColumnWidths' = <<>>
    /\ startedAddingRows' = FALSE
    /\ alteredState' = TRUE
    /\ out' = <<>>
    /\ renders' = 0
    /\ rowOp' = "none"
    /\ UNCHANGED <<fullDividerStr, titleStr, columnStr, rowStrs, fault>>

Next ==
    \/ \E t \in Titles : SetTitle(t)
    \/ \E columnName \in Names : AddColumn(columnName)
    \/ \E row \in RowInputs : AddRow(row)
    \/ \E list \in RowListInputs : AddRows(list)
    \/ \E g \in GarbageInts, crash \in BOOLEAN : PrintCall(g, crash)
    \/ Reset

Spec == Init /\ [][Next]_vars

----------------------------------------------------------------------------
\* The layout as the specification states it, for the properties below.

WellFormed == \A r \in 1..Len(rows) : Len(rows[r]) = Len(columnNames)
Renderable == title # <<>> /\ columnNames # <<>> /\ rows # <<>>
Rendered == renders >= 1
PrintStep == \E g \in GarbageInts, crash \in BOOLEAN : PrintCall(g, crash)

MaxOf(S) == CHOOSE m \in S : \A x \in S : x <= m

\* w[i] = max(len(columnNames[i]), max over rows of len(row[i]))
SpecWidth(i) ==
    MaxOf({Len(columnNames[i])}
          \cup {Len(rows[r][i]) : r \in {q \in 1..Len(rows) : i <= Len(rows[q])}})

SpecWidths == [i \in 1..Len(columnNames) |-> SpecWidth(i)]

RECURSIVE SpecSum(_)
SpecSum(n) == IF n = 0 THEN 0 ELSE SpecSum(n - 1) + SpecWidth(n) + 3

SpecTotalWidth == SpecSum(Len(columnNames)) + 1

SpecDivider == Rep("-", SpecTotalWidth)

\* left pad = floor(deficit / 2), right pad = deficit - left pad
SpecLeftPad(text, width) == (width - Len(text)) \div 2
SpecRightPad(text, width) == (width - Len(text)) - SpecLeftPad(text, width)

SpecCentered(text, width) ==
    Rep(" ", SpecLeftPad(text, width)) \o text \o Rep(" ", SpecRightPad(text, width))

SpecSegment(text, width) == <<"|", " ">> \o SpecCentered(text, width) \o <<" ">>

SpecTitleLine ==
    <<"|", " ">> \o SpecCentered(title, SpecTotalWidth - 4) \o <<" ", "|">>

RECURSIVE SpecHeaderSegments(_)
SpecHeaderSegments(n) ==
    IF n = 0 THEN <<>>
    ELSE SpecHeaderSegments(n - 1) \o SpecSegment(columnNames[n], SpecWidth(n))

SpecHeaderLine == SpecHeaderSegments(Len(columnNames)) \o <<"|">>

RECURSIVE SpecRowSegments(_, _)
SpecRowSegments(r, n) ==
    IF n = 0 THEN <<>>
    ELSE SpecRowSegments(r, n - 1) \o SpecSegment(rows[r][n], SpecWidth(n))

SpecRowLine(r) == SpecRowSegments(r, Len(rows[r])) \o <<"|">>

TitleFits == Len(title) <= SpecTotalWidth - 4

----------------------------------------------------------------------------
\* C1 (as stated): whenever Print has acted on a table with a non-empty
\* title, a column, a row and only rows of len(columnNames) cells, it has
\* written 5 + rowCount lines, each as long as the table is wide -- whatever
\* the length of the title.
C1_LinesForEveryTitle ==
    (Renderable /\ WellFormed /\ (Rendered \/ fault # "none")) =>
        /\ Len(out) = 5 + Len(rows)
        /\ \A i \in 1..Len(out) : Len(out[i]) = SpecTotalWidth

\* C1 (as stated), for the titles it singles out: the same of a title longer
\* than total width - 4.
C1_LinesForLongTitle ==
    (Renderable /\ WellFormed /\ ~TitleFits /\ (Rendered \/ fault # "none")) =>
        /\ Len(out) = 5 + Len(rows)
        /\ \A i \in 1..Len(out) : Len(out[i]) = SpecTotalWidth

\* C1 (amended): when moreover the title is at most total width - 4 long,
\* Print completes and writes divider, title line, divider, header line,
\* divider, the row lines in insertion order and a divider: 6 + rowCount
\* lines, each as long as the table is wide.
C1_LinesForFittingTitle ==
    (Renderable /\ WellFormed /\ TitleFits) =>
        /\ fault = "none"
        /\ Rendered =>
            /\ Len(out) = 6 + Len(rows)
            /\ \A i \in 1..Len(out) : Len(out[i]) = SpecTotalWidth
            /\ \A i \in {1, 3, 5, Len(out)} : out[i] = SpecDivider
            /\ out[2] = SpecTitleLine
            /\ out[4] = SpecHeaderLine
            /\ \A r \in 1..Len(rows) : out[5 + r] = SpecRowLine(r)

C1_Witness ==
    /\ Rendered /\ WellFormed /\ TitleFits
    /\ Len(columnNames) = 2 /\ Len(rows) = 2
    /\ rows[1] # rows[2]
    /\ Len(title) < SpecTotalWidth - 4

\* C2: no call ends the process: Print never asks for a negative run of
\* padding and never reads a row's cells or the widths out of range (which
\* it has done once it has laid out a table with a row of another arity).
C2_NoFatalError ==
    /\ fault = "none"
    /\ Rendered => WellFormed

\* C3: every stored row has exactly len(columnNames) cells.
C3_RowArity == \A r \in 1..Len(rows) : Len(rows[r]) = Len(columnNames)

\* C4 (as stated): once AddRow or AddRows has been called since construction
\* or the last Reset, whatever its argument, no call but Reset changes
\* columnNames.
C4_LockedAfterAnyRowCall ==
    [][(rowOp # "none" /\ rowOp' # "none") => columnNames' = columnNames]_vars

\* C4 (amended): once AddRow has appended a row or AddRows has been called,
\* with any list, no call but Reset changes columnNames.
C4_LockedAfterAcceptedRowCall ==
    [][(rowOp = "accepted" /\ rowOp' = "accepted") => columnNames' = columnNames]_vars

C4_Witness ==
    /\ rowOp = "accepted"
    /\ rows = <<>>
    /\ columnNames # <<>>
    /\ out = <<MsgColumnsLocked>>

\* C5: whenever alteredState is false the stored format is the layout of the
\* current title, columns and rows: the widths are the maxima and the
\* divider is as long as the table is wide. (Stated for the tables Print
\* accepts; a new table has alteredState false and no format at all.)
C5_CacheCoherent ==
    (~alteredState /\ Renderable) =>
        /\ maxColumnWidths = SpecWidths
        /\ fullDividerStr = SpecDivider

\* C6: a Print that follows a completed Print with no call in between writes
\* the same lines, finds alteredState false and leaves it false, and leaves
\* the stored format as it is.
C6_RenderIdempotent ==
    [][(Rendered /\ PrintStep) =>
          /\ ~alteredState /\ ~alteredState'
          /\ out' = out
          /\ format' = format
          /\ fault' = "none"]_vars

C6_Witness ==
    /\ renders = 2 /\ WellFormed
    /\ Len(rows) = 2 /\ Len(out) = 6 + Len(rows)

\* C7 (as stated): Reset leaves title, columnNames, rows and the whole
\* stored format empty, startedAddingRows false and alteredState true.
C7_ResetClearsFormat ==
    [][Reset =>
          /\ title' = <<>> /\ columnNames' = <<>> /\ rows' = <<>>
          /\ maxColumnWidths' = <<>>
          /\ fullDividerStr' = <<>> /\ titleStr' = <<>>
          /\ columnStr' = <<>> /\ rowStrs' = <<>>
          /\ ~startedAddingRows' /\ alteredState']_vars

\* C7 (amended): Reset leaves title, columnNames, rows and maxColumnWidths
\* empty, startedAddingRows false and alteredState true; the divider, title,
\* header and row lines stay as the last layout left them.
C7_ResetClearsContent ==
    [][Reset =>
          /\ title' = <<>> /\ columnNames' = <<>> /\ rows' = <<>>
          /\ maxColumnWidths' = <<>>
          /\ ~startedAddingRows' /\ alteredState'
          /\ fullDividerStr' = fullDividerStr /\ titleStr' = titleStr
          /\ columnStr' = columnStr /\ rowStrs' = rowStrs]_vars

C7_Witness ==
    /\ title = <<>> /\ columnNames = <<>> /\ rows = <<>>
    /\ maxColumnWidths = <<>>
    /\ alteredState /\ ~startedAddingRows
    /\ fullDividerStr # <<>> /\ rowStrs # <<>>
    /\ out = <<>>

\* C8: a Print called while the title, the columns or the rows are empty
\* writes the diagnostic alone and changes nothing of the table.
C8_IncompletePrint ==
    [][(PrintStep /\ ~Renderable) =>
          /\ out' = <<MsgMissingData>>
          /\ UNCHANGED <<content, alteredState, format, fault>>]_vars

C8_Witness ==
    /\ out = <<MsgMissingData>>
    /\ title = <<>> /\ columnNames = <<>> /\ rows = <<>>
    /\ fullDividerStr # <<>>
    /\ alteredState

====
